---- MODULE Spec2Model ----
(***************************************************************************)
(* Neodustria API.  Users router (app/routes/users.py): the users          *)
(* collection, password hashing, JWT issuance at login and the             *)
(* get_current_user dependency that guards the protected handlers,         *)
(* domains CRUD included.  Then the handlers of the dashboard, news,       *)
(* global markets and technology routers over the collections of db.       *)
(*                                                                         *)
(* Time is a clock of sub-second ticks; python-jose stores and compares    *)
(* the exp claim in whole seconds (timegm(utctimetuple())), which Seconds  *)
(* models.  A JWT is a record of its claims plus the HMAC of those claims  *)
(* under the signing key; the HMAC is modelled as the injective image of   *)
(* (key, claims).  A bcrypt hash is the record of scheme, salt and the     *)
(* digest of (salt, secret), the digest modelled injectively.              *)
(***************************************************************************)
EXTENDS Integers, FiniteSets, Sequences, TLC

VARIABLES
    users,      \* users_collection: set of documents [id, email, role, password]
    nextId,     \* the next ObjectId insert_one generates
    now,        \* datetime.utcnow(), in ticks
    issued,     \* login responses handed to clients: [tok, uid, at]
    last,       \* the last request handled and the response sent
    rawpw,      \* history: raw password most recently set per stored identity
    inflight,   \* create_user requests between their find_one and their insert_one
    store_up,   \* whether the record store answers
    db,         \* db[name]: the documents of every other collection
    oid,        \* the next ObjectId insert_one generates in those collections
    pending     \* create_outlook / create_futures_curve requests between their
                \* existence check and their insert_one

vars == <<users, nextId, now, issued, last, rawpw, inflight, store_up, db, oid,
          pending>>

\* What the handlers of the users router leave alone in a sequential,
\* connected deployment.
env == <<inflight, store_up, db, oid, pending>>

----------------------------------------------------------------------------
(* Bounds *)

MaxUsers == 2          \* ObjectIds the store hands out
MaxTokens == 1         \* distinct tokens issued by login
TicksPerSecond == 2    \* clock resolution
MaxGrants == 2         \* distinct tokens issued by login where several are needed
MaxDocs == 3           \* ObjectIds the store hands out in the other collections

(* Program constants *)

SECRET_KEY == "your-secret-key"
ALGORITHM == "HS256"
ACCESS_TOKEN_EXPIRE_MINUTES == 60

TTLTicks == ACCESS_TOKEN_EXPIRE_MINUTES * 60 * TicksPerSecond

Emails == {"a@x.com", "b@x.com"}
Passwords == {"hunter2", "wrong"}
allowed_roles == {"admin", "individual"}
RoleInputs == allowed_roles \cup {"guest"}
Salts == {"salt"}
Ids == 1..MaxUsers
Requests == {"r1", "r2"}

\* The collections of db the other routers use.
Collections ==
    {"domains", "projects", "suppliers", "market_scores", "news", "materials",
     "forecasts", "futures_curves", "patents", "research_papers", "startups",
     "investors"}

\* The instants the clock may show: the first ticks, at which logins issue
\* tokens, and the ticks around the expiry of those tokens.
Times ==
    {0, 1} \cup { TTLTicks + k : k \in 0..TicksPerSecond }

----------------------------------------------------------------------------
(* Password hashing: pwd_context = CryptContext(schemes=["bcrypt"]) *)

\* A stored password string that is not a bcrypt hash: the raw text itself.
Plain(p) == [scheme |-> "plain", salt |-> "", digest |-> p]

pwd_hash(p, salt) == [scheme |-> "bcrypt", salt |-> salt, digest |-> p]

\* CryptContext identifies the scheme of the stored string before verifying;
\* verify raises UnknownHashError for a string of no configured scheme.
pwd_identified(stored) == stored.scheme = "bcrypt"

pwd_verify(p, stored) ==
    /\ stored.scheme = "bcrypt"
    /\ stored = pwd_hash(p, stored.salt)

NoHash == [scheme |-> "", salt |-> "", digest |-> ""]

----------------------------------------------------------------------------
(* Documents and responses *)

NoUser == [id |-> 0, email |-> "", role |-> "", password |-> NoHash]

NoToken ==
    [wf |-> FALSE, sub |-> 0, role |-> "", exp |-> 0,
     sig |-> [key |-> "", sub |-> 0, role |-> "", exp |-> 0]]

\* Mutant: the filter is dropped, find_one() answers the first document.
find_first(coll, id) ==
    IF coll = {}
    THEN NoUser
    ELSE CHOOSE u \in coll : \A v \in coll : u.id <= v.id

find_by_id(coll, id) ==
    IF \E u \in coll : u.id = id
    THEN CHOOSE u \in coll : u.id = id
    ELSE NoUser

\* find_one({"email": email}): the first match in natural (insertion) order.
find_by_email(coll, email) ==
    IF \E u \in coll : u.email = email
    THEN CHOOSE u \in coll :
            /\ u.email = email
            /\ \A v \in coll : v.email = email => u.id <= v.id
    ELSE NoUser

\* Mutant: the store hands out the smallest id no document holds.
ReusedObjectId(coll, next) ==
    CHOOSE k \in 1..next : /\ \A u \in coll : u.id # k
                           /\ \A j \in 1..(k - 1) : \E u \in coll : u.id = j

\* insert_one: the _id of the inserted document is a fresh ObjectId.
NewObjectId(coll, next) == next

http_error(status, message) ==
    [ok |-> FALSE, status |-> status, message |-> message, user |-> NoUser]

Ok(user) == [ok |-> TRUE, status |-> 200, message |-> "", user |-> user]

\* An exception no handler catches: the framework answers 500.
ServerError == http_error(500, "Internal Server Error")

----------------------------------------------------------------------------
(* Token helpers *)

Seconds(t) == t \div TicksPerSecond

Sign(key, sub, role, exp) == [key |-> key, sub |-> sub, role |-> role, exp |-> exp]

jwt_encode(sub, role, exp, key) ==
    [wf |-> TRUE, sub |-> sub, role |-> role, exp |-> exp,
     sig |-> Sign(key, sub, role, exp)]

\* Mutant: the role claim is a fixed default, not the role passed in.
create_access_token_default_role(sub, role, t, expires_delta) ==
    jwt_encode(sub, "individual",
               Seconds(t + (IF expires_delta = 0 THEN TTLTicks ELSE expires_delta)),
               SECRET_KEY)

\* expires_delta = 0 stands for None; "expires_delta or timedelta(minutes=...)"
\* takes the default for a zero timedelta as well.
create_access_token(sub, role, t, expires_delta) ==
    jwt_encode(sub, role,
               Seconds(t + (IF expires_delta = 0 THEN TTLTicks ELSE expires_delta)),
               SECRET_KEY)

\* Mutant: the signature is not verified.
jwt_decode_unverified(token, key, t) ==
    /\ token.wf
    /\ ~(token.exp < Seconds(t))

\* jwt.decode: structure, then signature, then the exp claim against the clock.
jwt_decode_ok(token, key, t) ==
    /\ token.wf
    /\ token.sig = Sign(key, token.sub, token.role, token.exp)
    /\ ~(token.exp < Seconds(t))

\* payload.get("sub") is None: the token carries no subject (sub = 0).
HasSub(token) == token.sub # 0

\* ObjectId(user_id) accepts the string of an ObjectId and raises InvalidId
\* for any other (sub < 0).
IsObjectId(sub) == sub >= 1

\* Mutant: the identity is built from the claims of the token, no lookup.
get_current_user_from_claims(token, coll, t) ==
    IF ~jwt_decode_ok(token, SECRET_KEY, t) \/ ~HasSub(token)
    THEN http_error(401, "Invalid authentication token")
    ELSE Ok([id |-> token.sub, email |-> "", role |-> token.role,
             password |-> NoHash])

\* Mutant: the stored record is returned with the role claim of the token.
get_current_user_role_claim(token, coll, t) ==
    IF ~jwt_decode_ok(token, SECRET_KEY, t) \/ ~HasSub(token)
    THEN http_error(401, "Invalid authentication token")
    ELSE IF ~IsObjectId(token.sub) \/ ~store_up
         THEN ServerError
         ELSE IF find_by_id(coll, token.sub) = NoUser
              THEN http_error(401, "User not found")
              ELSE Ok([find_by_id(coll, token.sub) EXCEPT !.role = token.role])

\* Mutant: the lookup sits inside the try and every exception becomes the 401.
get_current_user_catch_all(token, coll, t) ==
    IF ~jwt_decode_ok(token, SECRET_KEY, t) \/ ~HasSub(token)
    THEN http_error(401, "Invalid authentication token")
    ELSE IF ~IsObjectId(token.sub) \/ ~store_up
         THEN http_error(401, "Invalid authentication token")
         ELSE IF find_by_id(coll, token.sub) = NoUser
              THEN http_error(401, "User not found")
              ELSE Ok(find_by_id(coll, token.sub))

\* Mutant: one active token per identity, a later login revokes the earlier
\* tokens of the same subject.
get_current_user_latest_only(token, coll, t) ==
    IF \/ ~jwt_decode_ok(token, SECRET_KEY, t)
       \/ ~HasSub(token)
       \/ \E i, j \in issued : i.tok = token /\ j.uid = i.uid /\ j.at > i.at
    THEN http_error(401, "Invalid authentication token")
    ELSE IF ~IsObjectId(token.sub) \/ ~store_up
         THEN ServerError
         ELSE IF find_by_id(coll, token.sub) = NoUser
              THEN http_error(401, "User not found")
              ELSE Ok(find_by_id(coll, token.sub))

\* The try block covers jwt.decode and the sub check; ObjectId(user_id) and
\* find_one run after it, so what they raise is not turned into a 401.
get_current_user(token, coll, t) ==
    IF ~jwt_decode_ok(token, SECRET_KEY, t) \/ ~HasSub(token)
    THEN http_error(401, "Invalid authentication token")
    ELSE IF ~IsObjectId(token.sub) \/ ~store_up
         THEN ServerError
         ELSE IF find_by_id(coll, token.sub) = NoUser
              THEN http_error(401, "User not found")
              ELSE Ok(find_by_id(coll, token.sub))

----------------------------------------------------------------------------
(* Tokens a client can present: the ones login returned, those with one    *)
(* claim altered and the signature kept, an unparseable string, and tokens *)
(* signed with the key by another holder of it that carry no subject or a  *)
(* subject that is no ObjectId.                                            *)

Tokens == { i.tok : i \in issued }

Altered(tok) ==
    { [tok EXCEPT !.sub = s] : s \in Ids \ {tok.sub} }
    \cup { [tok EXCEPT !.role = r] : r \in allowed_roles \ {tok.role} }
    \cup { [tok EXCEPT !.exp = tok.exp + 1] }

Minted(t) ==
    { jwt_encode(sub, "admin", Seconds(t + TTLTicks), SECRET_KEY) : sub \in {0, -1} }

Presentable ==
    Tokens \cup UNION { Altered(tok) : tok \in Tokens } \cup {NoToken}
        \cup Minted(now)

----------------------------------------------------------------------------
Idle == [pc |-> "idle", email |-> "", role |-> "", password |-> "", salt |-> ""]

NoRequest == [pc |-> "idle", material_id |-> 0]

Init ==
    /\ users = {}
    /\ nextId = 1
    /\ now = 0
    /\ issued = {}
    /\ last = [op |-> "init", status |-> 0, message |-> ""]
    /\ rawpw = [i \in Ids |-> ""]
    /\ inflight = [r \in Requests |-> Idle]
    /\ store_up = TRUE
    /\ db = [c \in Collections |-> {}]
    /\ oid = 1
    /\ pending = [r \in Requests |-> NoRequest]

\* The handler that ran and the status and message of its response.
Respond(op, resp) ==
    last' = [op |-> op, status |-> resp.status, message |-> resp.message]

\* Mutant: the validator accepts every role.
validate_role_any(value) == TRUE

validate_role(value) == value \in allowed_roles

\* Mutant: the password is stored as submitted.
updated_data_raw(user_id, email, role, password, salt) ==
    [id |-> user_id, email |-> email, role |-> role, password |-> Plain(password)]

\* The document a handler writes: user.dict() with the password hashed.
updated_data(user_id, email, role, password, salt) ==
    [id |-> user_id, email |-> email, role |-> role,
     password |-> pwd_hash(password, salt)]

\* POST /users/
create_user(email, role, password, salt) ==
    /\ IF ~validate_role(role)
       THEN /\ Respond("create_user", http_error(422, "Validation error"))
            /\ UNCHANGED <<users, nextId, rawpw>>
       ELSE IF ~store_up
       THEN \* find_one raises inside the try
            /\ Respond("create_user", http_error(500, "Failed to create user"))
            /\ UNCHANGED <<users, nextId, rawpw>>
       ELSE IF find_by_email(users, email) # NoUser
       THEN \* the 400 raised inside the try is caught by "except Exception"
            /\ Respond("create_user", http_error(500, "Failed to create user"))
            /\ UNCHANGED <<users, nextId, rawpw>>
       ELSE LET new_user == [id |-> NewObjectId(users, nextId), email |-> email,
                            role |-> role, password |-> pwd_hash(password, salt)]
            IN  /\ nextId <= MaxUsers
                /\ users' = users \cup {new_user}
                /\ nextId' = nextId + 1
                /\ rawpw' = [rawpw EXCEPT ![new_user.id] = password]
                /\ Respond("create_user", Ok(new_user))
    /\ UNCHANGED <<now, issued>>
    /\ UNCHANGED env

\* Mutant: an unknown email is answered differently from a wrong password.
login_response_revealing(email, password) ==
    IF ~store_up
    THEN ServerError
    ELSE IF find_by_email(users, email) = NoUser
    THEN http_error(404, "User not found")
    ELSE IF ~pwd_identified(find_by_email(users, email).password)
    THEN ServerError
    ELSE IF ~pwd_verify(password, find_by_email(users, email).password)
    THEN http_error(401, "Invalid email or password")
    ELSE Ok(find_by_email(users, email))

\* create_user as the two store operations it makes, for requests that run
\* concurrently: first the find_one({"email": ...}) and its 400 ...
create_user_find(r, email, role, password, salt) ==
    /\ inflight[r] = Idle
    /\ validate_role(role)
    /\ store_up
    /\ nextId + Cardinality({q \in Requests : inflight[q] # Idle}) <= MaxUsers
    /\ IF find_by_email(users, email) # NoUser
       THEN /\ Respond("create_user", http_error(500, "Failed to create user"))
            /\ UNCHANGED inflight
       ELSE /\ inflight' = [inflight EXCEPT ![r] =
                    [pc |-> "insert", email |-> email, role |-> role,
                     password |-> password, salt |-> salt]]
            /\ UNCHANGED last
    /\ UNCHANGED <<users, nextId, now, issued, rawpw, store_up, db, oid, pending>>

\* ... then the insert_one of the hashed document and the response.
create_user_insert(r) ==
    /\ inflight[r] # Idle
    /\ LET req == inflight[r]
           new_user == [id |-> NewObjectId(users, nextId), email |-> req.email,
                        role |-> req.role,
                        password |-> pwd_hash(req.password, req.salt)]
       IN  /\ users' = users \cup {new_user}
           /\ nextId' = nextId + 1
           /\ rawpw' = [rawpw EXCEPT ![new_user.id] = req.password]
           /\ Respond("create_user", Ok(new_user))
    /\ inflight' = [inflight EXCEPT ![r] = Idle]
    /\ UNCHANGED <<now, issued, store_up, db, oid, pending>>

\* The response of login: the matched user on success.  Neither find_one
\* nor pwd_context.verify is inside a try.
login_response(email, password) ==
    IF ~store_up
    THEN ServerError
    ELSE IF find_by_email(users, email) = NoUser
    THEN http_error(401, "Invalid email or password")
    ELSE IF ~pwd_identified(find_by_email(users, email).password)
    THEN ServerError
    ELSE IF ~pwd_verify(password, find_by_email(users, email).password)
    THEN http_error(401, "Invalid email or password")
    ELSE Ok(find_by_email(users, email))

\* POST /users/login, with at most cap distinct tokens handed out.
login_capped(email, password, cap) ==
    /\ IF ~login_response(email, password).ok
       THEN UNCHANGED issued
       ELSE LET user == login_response(email, password).user
                grant == [tok |-> create_access_token(user.id, user.role, now, 0),
                          uid |-> user.id, at |-> now]
            IN  /\ Cardinality(issued \cup {grant}) <= cap
                /\ issued' = issued \cup {grant}
    /\ Respond("login", login_response(email, password))
    /\ UNCHANGED <<users, nextId, now, rawpw>>
    /\ UNCHANGED env

\* Mutant: the lookup is find_one_and_delete, a successful login removes the
\* matched document.
login_find_one_and_delete(email, password) ==
    /\ IF ~login_response(email, password).ok
       THEN UNCHANGED <<issued, users, rawpw>>
       ELSE LET user == login_response(email, password).user
                grant == [tok |-> create_access_token(user.id, user.role, now, 0),
                          uid |-> user.id, at |-> now]
            IN  /\ Cardinality(issued \cup {grant}) <= MaxTokens
                /\ issued' = issued \cup {grant}
                /\ users' = users \ {user}
                /\ rawpw' = [rawpw EXCEPT ![user.id] = ""]
    /\ Respond("login", login_response(email, password))
    /\ UNCHANGED <<nextId, now>>
    /\ UNCHANGED env

\* POST /users/login
login(email, password) == login_capped(email, password, MaxTokens)

ProtectedHandlers == {"get_users", "update_user", "delete_user"}

\* A request to a handler with Depends(get_current_user) whose token the
\* dependency rejects: its HTTPException is the response and the handler
\* body does not run.
Denied(op, tok) ==
    /\ ~get_current_user(tok, users, now).ok
    /\ Respond(op, get_current_user(tok, users, now))
    /\ UNCHANGED <<users, nextId, now, issued, rawpw>>
    /\ UNCHANGED env

\* GET /users/
get_users(tok) ==
    /\ get_current_user(tok, users, now).ok
    /\ Respond("get_users", Ok(NoUser))
    /\ UNCHANGED <<users, nextId, now, issued, rawpw>>
    /\ UNCHANGED env

\* PUT /users/{user_id}
update_user(tok, user_id, email, role, password, salt) ==
    /\ get_current_user(tok, users, now).ok
    /\ IF ~validate_role(role)
       THEN /\ Respond("update_user", http_error(422, "Validation error"))
            /\ UNCHANGED <<users, rawpw>>
       ELSE IF find_by_id(users, user_id) = NoUser
       THEN \* matched_count = 0: the 404 is caught by "except Exception"
            /\ Respond("update_user", http_error(500, "Failed to update user"))
            /\ UNCHANGED <<users, rawpw>>
       ELSE LET updated == updated_data(user_id, email, role, password, salt)
            IN  /\ users' = (users \ {find_by_id(users, user_id)}) \cup {updated}
                /\ rawpw' = [rawpw EXCEPT ![user_id] = password]
                /\ Respond("update_user", Ok(updated))
    /\ UNCHANGED <<nextId, now, issued>>
    /\ UNCHANGED env

\* DELETE /users/{user_id}
delete_user(tok, user_id) ==
    /\ get_current_user(tok, users, now).ok
    /\ IF find_by_id(users, user_id) = NoUser
       THEN \* deleted_count = 0: the 404 is caught by "except Exception"
            /\ Respond("delete_user", http_error(500, "Failed to delete user"))
            /\ UNCHANGED <<users, rawpw>>
       ELSE /\ users' = users \ {find_by_id(users, user_id)}
            /\ rawpw' = [rawpw EXCEPT ![user_id] = ""]
            /\ Respond("delete_user", Ok(NoUser))
    /\ UNCHANGED <<nextId, now, issued>>
    /\ UNCHANGED env

\* The record store stops answering: every find_one raises from now on.
StoreFails ==
    /\ store_up
    /\ store_up' = FALSE
    /\ UNCHANGED <<users, nextId, now, issued, last, rawpw, inflight, db, oid,
                   pending>>

\* The record store answers again.
StoreRecovers ==
    /\ ~store_up
    /\ store_up' = TRUE
    /\ UNCHANGED <<users, nextId, now, issued, last, rawpw, inflight, db, oid,
                   pending>>

\* The clock advances.
Tick(t) ==
    /\ t > now
    /\ now' = t
    /\ UNCHANGED <<users, nextId, issued, last, rawpw>>
    /\ UNCHANGED env

Next ==
    \/ \E e \in Emails, r \in RoleInputs, p \in Passwords, s \in Salts :
          create_user(e, r, p, s)
    \/ \E e \in Emails, p \in Passwords : login(e, p)
    \/ \E op \in ProtectedHandlers, tok \in Presentable : Denied(op, tok)
    \/ \E tok \in Presentable : get_users(tok)
    \/ \E tok \in Presentable, i \in Ids, e \in Emails, r \in RoleInputs,
          p \in Passwords, s \in Salts : update_user(tok, i, e, r, p, s)
    \/ \E tok \in Presentable, i \in Ids : delete_user(tok, i)
    \/ \E t \in Times : Tick(t)

Spec == Init /\ [][Next]_vars

\* One account whose password update_user changes from "hunter2" to "wrong",
\* with several logins over time.
NextTokens ==
    \/ \E s \in Salts : create_user("a@x.com", "admin", "hunter2", s)
    \/ \E p \in Passwords : login_capped("a@x.com", p, MaxGrants)
    \/ \E op \in ProtectedHandlers, tok \in Tokens : Denied(op, tok)
    \/ \E tok \in Tokens : get_users(tok)
    \/ \E tok \in Tokens, i \in Ids, r \in allowed_roles, s \in Salts :
          update_user(tok, i, "a@x.com", r, "wrong", s)
    \/ \E tok \in Tokens, i \in Ids : delete_user(tok, i)
    \/ \E t \in Times : Tick(t)

SpecTokens == Init /\ [][NextTokens]_vars

\* Concurrent create_user requests, their store operations interleaved.
NextRace ==
    \/ \E r \in Requests, e \in Emails, role \in allowed_roles, p \in Passwords,
          s \in Salts : create_user_find(r, e, role, p, s)
    \/ \E r \in Requests : create_user_insert(r)

SpecRace == Init /\ [][NextRace]_vars

\* The users router with a record store that fails and recovers.
NextOutage ==
    \/ \E e \in Emails, s \in Salts : create_user(e, "admin", "hunter2", s)
    \/ \E e \in Emails, p \in Passwords : login(e, p)
    \/ \E op \in ProtectedHandlers, tok \in Presentable \ Minted(now) :
          Denied(op, tok)
    \/ \E tok \in Tokens : get_users(tok)
    \/ StoreFails
    \/ StoreRecovers
    \/ \E t \in Times : Tick(t)

SpecOutage == Init /\ [][NextOutage]_vars

\* A users collection that already holds one document when the service
\* starts, written by another producer: its password field is a bcrypt hash
\* or a string of no scheme pwd_context knows.
LegacyPasswords ==
    { pwd_hash(p, s) : p \in Passwords, s \in Salts } \cup { Plain(p) : p \in Passwords }

InitLegacy ==
    /\ \E stored \in LegacyPasswords :
          /\ users = {[id |-> 1, email |-> "a@x.com", role |-> "admin",
                       password |-> stored]}
          /\ rawpw = [i \in Ids |-> IF i = 1 THEN stored.digest ELSE ""]
    /\ nextId = 2
    /\ now = 0
    /\ issued = {}
    /\ last = [op |-> "init", status |-> 0, message |-> ""]
    /\ inflight = [r \in Requests |-> Idle]
    /\ store_up = TRUE
    /\ db = [c \in Collections |-> {}]
    /\ oid = 1
    /\ pending = [r \in Requests |-> NoRequest]

NextLegacy ==
    \/ \E e \in Emails, r \in RoleInputs, p \in Passwords, s \in Salts :
          create_user(e, r, p, s)
    \/ \E e \in Emails, p \in Passwords : login(e, p)
    \/ \E op \in ProtectedHandlers, tok \in Presentable : Denied(op, tok)
    \/ \E tok \in Presentable : get_users(tok)
    \/ \E t \in Times : Tick(t)

SpecLegacy == InitLegacy /\ [][NextLegacy]_vars

----------------------------------------------------------------------------
(* The document store as the other routers use it: equality filters,       *)
(* find_one, update_one with $set, delete_one, insert_one.  A document is  *)
(* a record; its _id is the field id.                                      *)

NoDoc == [id |-> 0]

DocIds == 1..MaxDocs

\* A document matches an equality filter when it has every field of the
\* filter with the value given; a field the document lacks matches nothing.
Matches(doc, filter) ==
    \A f \in DOMAIN filter : f \in DOMAIN doc /\ doc[f] = filter[f]

find(coll, filter) == { d \in coll : Matches(d, filter) }

\* find_one(filter): the first match in natural (insertion) order.
find_one(coll, filter) ==
    IF find(coll, filter) = {}
    THEN NoDoc
    ELSE CHOOSE d \in find(coll, filter) :
            \A e \in find(coll, filter) : d.id <= e.id

\* find_one(filter, sort=[("date", -1)]): the match with the greatest date.
find_one_latest(coll, filter) ==
    IF find(coll, filter) = {}
    THEN NoDoc
    ELSE CHOOSE d \in find(coll, filter) :
            \A e \in find(coll, filter) :
                e.date < d.date \/ (e.date = d.date /\ d.id <= e.id)

\* {"$set": fields}: the fields given are written, the others are kept.
set_fields(doc, fields) ==
    [f \in DOMAIN doc \cup DOMAIN fields |->
        IF f \in DOMAIN fields THEN fields[f] ELSE doc[f]]

\* update_one(filter, {"$set": fields}) on the first match.
update_one(coll, filter, fields) ==
    IF find_one(coll, filter) = NoDoc
    THEN coll
    ELSE (coll \ {find_one(coll, filter)})
            \cup {set_fields(find_one(coll, filter), fields)}

matched_count(coll, filter) ==
    IF find_one(coll, filter) = NoDoc THEN 0 ELSE 1

\* The store counts a matched document as modified only when $set changed
\* the value of one of its fields.
modified_count(coll, filter, fields) ==
    IF find_one(coll, filter) = NoDoc
    THEN 0
    ELSE IF set_fields(find_one(coll, filter), fields) = find_one(coll, filter)
         THEN 0
         ELSE 1

delete_one(coll, filter) == coll \ {find_one(coll, filter)}

deleted_count(coll, filter) ==
    IF find_one(coll, filter) = NoDoc THEN 0 ELSE 1

\* insert_one(data): data stored under a fresh ObjectId.
insert_one(coll, data, id) == coll \cup {set_fields(data, [id |-> id])}

HTTPException(status_code, detail) == [status |-> status_code, message |-> detail]

Success == [status |-> 200, message |-> ""]

----------------------------------------------------------------------------
(* Domains CRUD (users router), each behind Depends(get_current_user).     *)
(* A domain document is modelled by its name; icon, locked and             *)
(* admin_contact play no part in any handler.                              *)

DomainNames == {"Energy", "Mining"}

DomainHandlers == {"get_domains", "create_domain", "update_domain", "delete_domain"}

\* GET /users/domains
get_domains(tok) ==
    /\ get_current_user(tok, users, now).ok
    /\ Respond("get_domains", Success)
    /\ UNCHANGED <<users, nextId, now, issued, rawpw, inflight, store_up, db, oid,
                   pending>>

\* POST /users/domains
create_domain(tok, name) ==
    /\ get_current_user(tok, users, now).ok
    /\ IF find_one(db["domains"], [name |-> name]) # NoDoc
       THEN \* the 400 raised inside the try is caught by "except Exception"
            /\ Respond("create_domain", http_error(500, "Failed to create domain"))
            /\ UNCHANGED <<db, oid>>
       ELSE /\ oid <= MaxDocs
            /\ db' = [db EXCEPT !["domains"] = insert_one(@, [name |-> name], oid)]
            /\ oid' = oid + 1
            /\ Respond("create_domain", Success)
    /\ UNCHANGED <<users, nextId, now, issued, rawpw, inflight, store_up, pending>>

\* PUT /users/domains/{domain_id}
update_domain(tok, domain_id, name) ==
    /\ get_current_user(tok, users, now).ok
    /\ IF matched_count(db["domains"], [id |-> domain_id]) = 0
       THEN \* the 404 raised inside the try is caught by "except Exception"
            /\ Respond("update_domain", http_error(500, "Failed to update domain"))
            /\ UNCHANGED db
       ELSE /\ db' = [db EXCEPT !["domains"] =
                        update_one(@, [id |-> domain_id], [name |-> name])]
            /\ Respond("update_domain", Success)
    /\ UNCHANGED <<users, nextId, now, issued, rawpw, inflight, store_up, oid,
                   pending>>

\* Mutant: the handler lacks Depends(get_current_user) and runs for any token.
delete_domain_unguarded(tok, domain_id) ==
    /\ IF deleted_count(db["domains"], [id |-> domain_id]) = 0
       THEN /\ Respond("delete_domain", http_error(500, "Failed to delete domain"))
            /\ UNCHANGED db
       ELSE /\ db' = [db EXCEPT !["domains"] = delete_one(@, [id |-> domain_id])]
            /\ Respond("delete_domain", Success)
    /\ UNCHANGED <<users, nextId, now, issued, rawpw, inflight, store_up, oid,
                   pending>>

\* DELETE /users/domains/{domain_id}
delete_domain(tok, domain_id) ==
    /\ get_current_user(tok, users, now).ok
    /\ IF deleted_count(db["domains"], [id |-> domain_id]) = 0
       THEN \* the 404 raised inside the try is caught by "except Exception"
            /\ Respond("delete_domain", http_error(500, "Failed to delete domain"))
            /\ UNCHANGED db
       ELSE /\ db' = [db EXCEPT !["domains"] = delete_one(@, [id |-> domain_id])]
            /\ Respond("delete_domain", Success)
    /\ UNCHANGED <<users, nextId, now, issued, rawpw, inflight, store_up, oid,
                   pending>>

----------------------------------------------------------------------------
(* Projects, suppliers and market scores (dashboard router).  No handler   *)
(* of this router authenticates: user_id is a parameter of the request.    *)

Scores == {10, 20}

\* Mutant: the filter names the document only, not its owner.
owner_filter_id_only(doc_id, user_id) == [id |-> doc_id]

\* {"_id": ObjectId(doc_id), "user_id": ObjectId(user_id)}
owner_filter(doc_id, user_id) == [id |-> doc_id, user_id |-> user_id]

\* POST /dashboard/projects
create_project(user_id, domain_id) ==
    /\ IF find_one(db["domains"], [id |-> domain_id]) = NoDoc
       THEN \* the 404 raised inside the try is caught and answered as a 400
            /\ Respond("create_project", HTTPException(400, "Error creating project"))
            /\ UNCHANGED <<db, oid>>
       ELSE LET domain_doc == find_one(db["domains"], [id |-> domain_id])
                data == [user_id |-> user_id, domain_id |-> domain_id,
                         domain |-> domain_doc.name]
            IN  /\ oid <= MaxDocs
                /\ db' = [db EXCEPT !["projects"] = insert_one(@, data, oid)]
                /\ oid' = oid + 1
                /\ Respond("create_project", Success)
    /\ UNCHANGED <<users, nextId, now, issued, rawpw, inflight, store_up, pending>>

\* DELETE /dashboard/projects/{project_id}?user_id=
delete_project(project_id, user_id) ==
    /\ IF deleted_count(db["projects"], owner_filter(project_id, user_id)) = 0
       THEN /\ Respond("delete_project",
                       HTTPException(404, "Project not found or not authorized"))
            /\ UNCHANGED db
       ELSE /\ db' = [db EXCEPT !["projects"] =
                        delete_one(@, owner_filter(project_id, user_id))]
            /\ Respond("delete_project", Success)
    /\ UNCHANGED <<users, nextId, now, issued, rawpw, inflight, store_up, oid,
                   pending>>

\* POST /dashboard/suppliers
create_supplier(user_id) ==
    /\ oid <= MaxDocs
    /\ db' = [db EXCEPT !["suppliers"] = insert_one(@, [user_id |-> user_id], oid)]
    /\ oid' = oid + 1
    /\ Respond("create_supplier", Success)
    /\ UNCHANGED <<users, nextId, now, issued, rawpw, inflight, store_up, pending>>

\* DELETE /dashboard/suppliers/{supplier_id}?user_id=
delete_supplier(supplier_id, user_id) ==
    /\ IF deleted_count(db["suppliers"], owner_filter(supplier_id, user_id)) = 0
       THEN /\ Respond("delete_supplier",
                       HTTPException(404, "Supplier not found or not authorized"))
            /\ UNCHANGED db
       ELSE /\ db' = [db EXCEPT !["suppliers"] =
                        delete_one(@, owner_filter(supplier_id, user_id))]
            /\ Respond("delete_supplier", Success)
    /\ UNCHANGED <<users, nextId, now, issued, rawpw, inflight, store_up, oid,
                   pending>>

\* POST /dashboard/market-scores: the document is MarketScore.dict(), whose
\* fields are domain, score and date; it has no user_id.
create_market_score(domain, score) ==
    /\ oid <= MaxDocs
    /\ db' = [db EXCEPT !["market_scores"] =
                insert_one(@, [domain |-> domain, score |-> score], oid)]
    /\ oid' = oid + 1
    /\ Respond("create_market_score", Success)
    /\ UNCHANGED <<users, nextId, now, issued, rawpw, inflight, store_up, pending>>

\* DELETE /dashboard/market-scores/{market_score_id}?user_id=
delete_market_score(market_score_id, user_id) ==
    /\ IF deleted_count(db["market_scores"],
                        owner_filter(market_score_id, user_id)) = 0
       THEN /\ Respond("delete_market_score",
                       HTTPException(404, "Market score not found or not authorized"))
            /\ UNCHANGED db
       ELSE /\ db' = [db EXCEPT !["market_scores"] =
                        delete_one(@, owner_filter(market_score_id, user_id))]
            /\ Respond("delete_market_score", Success)
    /\ UNCHANGED <<users, nextId, now, issued, rawpw, inflight, store_up, oid,
                   pending>>

----------------------------------------------------------------------------
(* News and insights (news_alerts router).                                 *)

\* What the classifier call can give: an exception, or a reply, modelled by
\* the set of level words its lower-cased text contains.
Keywords == {"red", "amber", "yellow", "green"}

Replies ==
    {[failed |-> TRUE, contains |-> {}]}
        \cup { [failed |-> FALSE, contains |-> w] : w \in SUBSET Keywords }

\* Mutant: the reply is capitalised and returned as it is.
ai_classify_alert_raw(reply) ==
    IF reply.failed THEN "Green"
    ELSE IF reply.contains = {"red"} THEN "Red"
    ELSE IF reply.contains = {"amber"} THEN "Amber"
    ELSE IF reply.contains = {"green"} THEN "Green"
    ELSE "Unknown"

ai_classify_alert(reply) ==
    IF reply.failed THEN "Green"
    ELSE IF "red" \in reply.contains THEN "Red"
    ELSE IF "amber" \in reply.contains \/ "yellow" \in reply.contains THEN "Amber"
    ELSE IF "green" \in reply.contains THEN "Green"
    ELSE "Green"

\* A request without a date (None or ""); the dates given are on the scale
\* of the clock.
NoDate == -1
Dates == {NoDate, 1, 2}

\* POST /news-insights/news
create_news(domain_id, date, reply) ==
    /\ IF find_one(db["domains"], [id |-> domain_id]) = NoDoc
       THEN /\ Respond("create_news", HTTPException(404, "Domain not found"))
            /\ UNCHANGED <<db, oid>>
       ELSE LET data == [domain_id |-> domain_id,
                         date |-> IF date = NoDate THEN now ELSE date,
                         alert_type |-> ai_classify_alert(reply)]
            IN  /\ oid <= MaxDocs
                /\ db' = [db EXCEPT !["news"] = insert_one(@, data, oid)]
                /\ oid' = oid + 1
                /\ Respond("create_news", Success)
    /\ UNCHANGED <<users, nextId, now, issued, rawpw, inflight, store_up, pending>>

\* The filter of the news lookup: {"domain": project.get("domain")}
news_filter(project) == [domain |-> project.domain]

\* The response of GET /news-insights/latest?project_id=
get_latest_insight_response(project_id) ==
    LET project == find_one(db["projects"], [id |-> project_id])
    IN  IF project = NoDoc
        THEN \* the 404 raised inside the try is caught and answered as a 400
             [status |-> 400, message |-> "Error fetching latest insight",
              latest_insight |-> NoDoc]
        ELSE IF project.domain = ""
        THEN [status |-> 400, message |-> "Error fetching latest insight",
              latest_insight |-> NoDoc]
        ELSE [status |-> 200, message |-> "",
              latest_insight |-> find_one_latest(db["news"], news_filter(project))]

get_latest_insight(project_id) ==
    /\ Respond("get_latest_insight", get_latest_insight_response(project_id))
    /\ UNCHANGED <<users, nextId, now, issued, rawpw, inflight, store_up, db, oid,
                   pending>>

----------------------------------------------------------------------------
(* Materials, forecasts and futures curves (global_markets router).        *)
(* Volatility is in hundredths: 30 is 0.30.                                *)

Volatilities == {30, 85, 50}

\* mapping.get(value, "Unknown")
get_volatility_level(value) ==
    IF value = 30 THEN "Low"
    ELSE IF value = 85 THEN "Medium"
    ELSE IF value = 115 THEN "High"
    ELSE IF value = 195 THEN "Very High"
    ELSE "Unknown"

\* POST /global/materials
create_material(volatility) ==
    /\ oid <= MaxDocs
    /\ db' = [db EXCEPT !["materials"] =
                insert_one(@, [volatility |-> volatility,
                               volatility_level |-> get_volatility_level(volatility)],
                           oid)]
    /\ oid' = oid + 1
    /\ Respond("create_material", Success)
    /\ UNCHANGED <<users, nextId, now, issued, rawpw, inflight, store_up, pending>>

\* PUT /global/materials/{material_id}: $set writes Material.dict(), which
\* has no volatility_level.
update_material(material_id, volatility) ==
    /\ IF matched_count(db["materials"], [id |-> material_id]) = 0
       THEN /\ Respond("update_material", HTTPException(404, "Material not found"))
            /\ UNCHANGED db
       ELSE /\ db' = [db EXCEPT !["materials"] =
                        update_one(@, [id |-> material_id],
                                   [volatility |-> volatility])]
            /\ Respond("update_material", Success)
    /\ UNCHANGED <<users, nextId, now, issued, rawpw, inflight, store_up, oid,
                   pending>>

\* The first store operations of create_outlook / create_futures_curve: the
\* material lookup and the duplicate check on coll.
create_check(r, op, coll, material_id, detail) ==
    /\ pending[r] = NoRequest
    /\ IF find_one(db["materials"], [id |-> material_id]) = NoDoc
       THEN /\ Respond(op, HTTPException(404, "Material not found"))
            /\ UNCHANGED pending
       ELSE IF find_one(db[coll], [material_id |-> material_id]) # NoDoc
       THEN /\ Respond(op, HTTPException(400, detail))
            /\ UNCHANGED pending
       ELSE /\ oid + Cardinality({q \in Requests : pending[q] # NoRequest}) <= MaxDocs
            /\ pending' = [pending EXCEPT ![r] =
                              [pc |-> op, material_id |-> material_id]]
            /\ UNCHANGED last
    /\ UNCHANGED <<users, nextId, now, issued, rawpw, inflight, store_up, db, oid>>

\* The insert_one that follows, and the response.
create_insert(r, op, coll) ==
    /\ pending[r].pc = op
    /\ db' = [db EXCEPT ![coll] =
                insert_one(@, [material_id |-> pending[r].material_id], oid)]
    /\ oid' = oid + 1
    /\ pending' = [pending EXCEPT ![r] = NoRequest]
    /\ Respond(op, Success)
    /\ UNCHANGED <<users, nextId, now, issued, rawpw, inflight, store_up>>

\* POST /global/forecasts
create_outlook_check(r, material_id) ==
    create_check(r, "create_outlook", "forecasts", material_id,
                 "Forecast already exists for this material")

create_outlook_insert(r) == create_insert(r, "create_outlook", "forecasts")

\* POST /global/futures
create_futures_curve_check(r, material_id) ==
    create_check(r, "create_futures_curve", "futures_curves", material_id,
                 "Futures curve already exists for this material")

create_futures_curve_insert(r) ==
    create_insert(r, "create_futures_curve", "futures_curves")

----------------------------------------------------------------------------
(* Patents, research papers, startups and investors (technology router).   *)
(* A document is modelled by the one field the requests vary.              *)

Titles == {"t1", "t2"}

\* "if result.modified_count == 0", for update_one({"_id": ...}, {"$set": ...})
not_updated(coll, doc_id, fields) ==
    modified_count(coll, [id |-> doc_id], fields) = 0

\* POST /tech/patents, /tech/papers, /tech/startups, /tech/investors
create_record(op, coll, fields) ==
    /\ oid <= MaxDocs
    /\ db' = [db EXCEPT ![coll] = insert_one(@, fields, oid)]
    /\ oid' = oid + 1
    /\ Respond(op, Success)
    /\ UNCHANGED <<users, nextId, now, issued, rawpw, inflight, store_up, pending>>

\* PUT /tech/<collection>/{id}: update_one, then the 404 on modified_count.
update_record(op, coll, doc_id, fields, detail) ==
    /\ db' = [db EXCEPT ![coll] = update_one(@, [id |-> doc_id], fields)]
    /\ IF not_updated(db[coll], doc_id, fields)
       THEN Respond(op, HTTPException(404, detail))
       ELSE Respond(op, Success)
    /\ UNCHANGED <<users, nextId, now, issued, rawpw, inflight, store_up, oid,
                   pending>>

create_patent(title) == create_record("create_patent", "patents", [title |-> title])

update_patent(patent_id, title) ==
    update_record("update_patent", "patents", patent_id, [title |-> title],
                  "Patent not updated")

create_paper(title) ==
    create_record("create_paper", "research_papers", [title |-> title])

update_paper(paper_id, title) ==
    update_record("update_paper", "research_papers", paper_id, [title |-> title],
                  "Research paper not updated")

create_startup(name) == create_record("create_startup", "startups", [name |-> name])

update_startup(startup_id, name) ==
    update_record("update_startup", "startups", startup_id, [name |-> name],
                  "Startup not updated")

create_investor(name) ==
    create_record("create_investor", "investors", [name |-> name])

update_investor(investor_id, name) ==
    update_record("update_investor", "investors", investor_id, [name |-> name],
                  "Investor not updated")

----------------------------------------------------------------------------
(* Specifications of the other routers.  Each starts from the empty store  *)
(* and has the handlers one group of endpoints needs; an account is        *)
(* registered and logged in where a protected handler takes part.          *)

AllProtected == ProtectedHandlers \cup DomainHandlers

\* The tokens a client presents to the users router.
Presented == Presentable \ Minted(now)

\* Users and domains, and the projects that refer to domains.
NextDomains ==
    \/ \E s \in Salts : create_user("a@x.com", "admin", "hunter2", s)
    \/ login("a@x.com", "hunter2")
    \/ \E op \in AllProtected, tok \in Presented : Denied(op, tok)
    \/ \E tok \in Presented, i \in Ids, s \in Salts :
          update_user(tok, i, "a@x.com", "admin", "hunter2", s)
    \/ \E tok \in Presented, i \in Ids : delete_user(tok, i)
    \/ \E tok \in Presented : get_domains(tok)
    \/ \E tok \in Presented, n \in DomainNames : create_domain(tok, n)
    \/ \E tok \in Presented, d \in DocIds, n \in DomainNames : update_domain(tok, d, n)
    \/ \E tok \in Presented, d \in DocIds : delete_domain(tok, d)
    \/ \E u \in Ids, d \in DocIds : create_project(u, d)

SpecDomains == Init /\ [][NextDomains]_vars

\* News of a domain and the latest insight of a project.
NextNews ==
    \/ \E s \in Salts : create_user("a@x.com", "admin", "hunter2", s)
    \/ login("a@x.com", "hunter2")
    \/ \E tok \in Tokens, n \in DomainNames : create_domain(tok, n)
    \/ \E d \in DocIds : create_project(1, d)
    \/ \E d \in DocIds, date \in Dates, reply \in Replies : create_news(d, date, reply)
    \/ \E p \in DocIds : get_latest_insight(p)

SpecNews == Init /\ [][NextNews]_vars

\* Projects, suppliers and market scores.
NextDashboard ==
    \/ \E s \in Salts : create_user("a@x.com", "admin", "hunter2", s)
    \/ login("a@x.com", "hunter2")
    \/ \E tok \in Tokens : create_domain(tok, "Energy")
    \/ \E u \in Ids, d \in DocIds : create_project(u, d)
    \/ \E p \in DocIds, u \in Ids : delete_project(p, u)
    \/ \E u \in Ids : create_supplier(u)
    \/ \E s \in DocIds, u \in Ids : delete_supplier(s, u)
    \/ \E n \in DomainNames, sc \in Scores : create_market_score(n, sc)
    \/ \E m \in DocIds, u \in Ids : delete_market_score(m, u)

SpecDashboard == Init /\ [][NextDashboard]_vars

\* Materials, with create_outlook and create_futures_curve requests that run
\* concurrently, their store operations interleaved.
NextMarkets ==
    \/ \E v \in Volatilities : create_material(v)
    \/ \E m \in DocIds, v \in Volatilities : update_material(m, v)
    \/ \E r \in Requests, m \in DocIds : create_outlook_check(r, m)
    \/ \E r \in Requests : create_outlook_insert(r)
    \/ \E r \in Requests, m \in DocIds : create_futures_curve_check(r, m)
    \/ \E r \in Requests : create_futures_curve_insert(r)

SpecMarkets == Init /\ [][NextMarkets]_vars

\* Patents, research papers, startups and investors.
NextTech ==
    \/ \E t \in Titles : create_patent(t)
    \/ \E d \in DocIds, t \in Titles : update_patent(d, t)
    \/ \E t \in Titles : create_paper(t)
    \/ \E d \in DocIds, t \in Titles : update_paper(d, t)
    \/ \E t \in Titles : create_startup(t)
    \/ \E d \in DocIds, t \in Titles : update_startup(d, t)
    \/ \E t \in Titles : create_investor(t)
    \/ \E d \in DocIds, t \in Titles : update_investor(d, t)

SpecTech == Init /\ [][NextTech]_vars

----------------------------------------------------------------------------
(* Properties *)

Stored(id) == find_by_id(users, id) # NoUser

\* What get_current_user answers for a token presented now.
Auth(tok) == get_current_user(tok, users, now)

InvalidToken == http_error(401, "Invalid authentication token")
UserNotFound == http_error(401, "User not found")

\* The names of the claims a token carries.
Claims(tok) == DOMAIN tok \ {"wf", "sig"}

\* C1: a token issued by login at t0 authenticates at every t with
\* t0 <= t < t0 + TTL while its identity is stored, and is rejected at every
\* t >= t0 + TTL, the instant t0 + TTL included.
C1_ValidExactlyUntilTTL ==
    \A i \in issued :
        /\ (now < i.at + TTLTicks /\ Stored(i.uid)) => Auth(i.tok).ok
        /\ now >= i.at + TTLTicks => ~Auth(i.tok).ok

\* C11: the token login returns encodes the subject, the role, issued-at = the
\* time of the login and expires-at = that time plus the 60 minute TTL.
C11_TokenClaims ==
    \A i \in issued :
        /\ Claims(i.tok) = {"sub", "role", "iat", "exp"}
        /\ i.tok.sub = i.uid
        /\ i.tok.role \in allowed_roles
        /\ i.tok.exp = Seconds(i.at + ACCESS_TOKEN_EXPIRE_MINUTES * 60 * TicksPerSecond)

\* C12: tokens are never revoked: while its identity is stored and its TTL
\* has not run out a token keeps authenticating, whatever logins and password
\* changes came after it.
C12_NeverRevoked ==
    \A i \in issued :
        (Stored(i.uid) /\ now < i.at + TTLTicks) => Auth(i.tok).ok

C12_Witness ==
    /\ \E i, j \in issued :
          /\ i.uid = j.uid
          /\ i.at < j.at
          /\ Auth(i.tok).ok
          /\ Auth(j.tok).ok
          /\ rawpw[i.uid] = "wrong"
    /\ last = [op |-> "get_users", status |-> 200, message |-> ""]

\* C13: every failure of get_current_user or login that the presented token
\* or credentials cause (unparseable token, bad signature, expired token,
\* token without a subject or with an unusable one, missing identity, wrong
\* password) is a 401, never a server error.
C13_FailuresAre401 ==
    \A op \in ProtectedHandlers \cup {"login"} :
        last.op = op =>
            /\ last.message # ServerError.message
            /\ last.message \in {"Invalid authentication token", "User not found",
                                "Invalid email or password"} => last.status = 401

\* C14: login answers an unknown email exactly as it answers a known email
\* with a wrong password.
C14_UniformLoginFailure ==
    \A e1, e2 \in Emails, p1, p2 \in Passwords :
        (~login_response(e1, p1).ok /\ ~login_response(e2, p2).ok)
            => login_response(e1, p1) = login_response(e2, p2)

C14_Witness ==
    /\ \E e1, e2 \in Emails, p \in Passwords :
          /\ find_by_email(users, e1) = NoUser
          /\ find_by_email(users, e2) # NoUser
          /\ ~login_response(e1, p).ok
          /\ ~login_response(e2, p).ok
    /\ last = [op |-> "login", status |-> 401,
               message |-> "Invalid email or password"]

\* C15: password verification at login never raises: when the stored password
\* is no well-formed hash, login answers the credential mismatch (401), not
\* an error.
C15_VerifyNeverRaises ==
    last.op = "login" =>
        /\ last.status \in {200, 401}
        /\ last.message # ServerError.message

\* C16: when create_user requests with the same email run concurrently, at
\* most one identity with that email is stored once they have finished.
C16_OneIdentityPerEmail ==
    (\A r \in Requests : inflight[r] = Idle) =>
        \A e \in Emails : Cardinality({u \in users : u.email = e}) <= 1

\* C17: a failure of the record store during the lookup of get_current_user
\* or of login is answered as a server-side failure, never as a 401.
C17_StoreFailureIsServerError ==
    ~store_up =>
        /\ \A e \in Emails, p \in Passwords :
              login_response(e, p).status = 500
        /\ \A tok \in Presentable :
              (jwt_decode_ok(tok, SECRET_KEY, now) /\ HasSub(tok))
                  => Auth(tok).status = 500

C17_Witness ==
    /\ ~store_up
    /\ \E tok \in Tokens : jwt_decode_ok(tok, SECRET_KEY, now) /\ Stored(tok.sub)
    /\ last = [op |-> "get_users", status |-> 500,
               message |-> "Internal Server Error"]

\* C18: login and get_current_user are stateless: a step that ends in the
\* response of login, of get_users or of a request the dependency rejected
\* leaves the users collection and every other stored state as it was.
C18_AuthLeavesStoreAlone ==
    [][(\/ last'.op = "login"
        \/ last'.op = "get_users"
        \/ last'.op \in ProtectedHandlers /\ last'.status = 401)
           => UNCHANGED <<users, nextId, rawpw>>]_vars

C18_Witness ==
    /\ users # {}
    /\ issued # {}
    /\ last = [op |-> "login", status |-> 200, message |-> ""]

\* C19: the role claim of a token is the stored role of its identity at the
\* moment of the login, and an issued token stays as it is when the stored
\* role changes afterwards.
C19_RoleSnapshot ==
    [][/\ \A g \in issued' \ issued : g.tok.role = find_by_id(users, g.uid).role
       /\ issued \subseteq issued']_vars

C19_Witness ==
    /\ \E i \in issued :
          /\ Stored(i.uid)
          /\ find_by_id(users, i.uid).role # i.tok.role
    /\ last = [op |-> "update_user", status |-> 200, message |-> ""]

\* C20: the role of every stored identity is admin or individual, and a
\* request answered with the validation error 422 changes nothing.
C20_RoleAllowed ==
    [][/\ \A u \in users' : u.role \in {"admin", "individual"}
       /\ last'.status = 422 => UNCHANGED <<users, nextId, rawpw>>]_vars

C20_Witness ==
    /\ users # {}
    /\ last = [op |-> "update_user", status |-> 422, message |-> "Validation error"]

\* C2: no two stored identities have the same email.
C2_EmailUnique ==
    \A u, v \in users : u.email = v.email => u = v

\* C3: a token whose identity delete_user removed is rejected with the
\* identity-not-found 401 while it is correctly signed and within its TTL.
C3_DeletedSubjectRejected ==
    \A i \in issued :
        (~Stored(i.uid) /\ now < i.at + TTLTicks) => Auth(i.tok) = UserNotFound

C3_Witness ==
    /\ \E i \in issued : ~Stored(i.uid) /\ now < i.at + TTLTicks
    /\ users # {}
    /\ last = [op |-> "get_users", status |-> 401, message |-> "User not found"]

\* C4: a token whose subject, role or expiry differs from what was signed is
\* rejected as invalid, whatever the store holds and whatever the time.
C4_AlteredTokenRejected ==
    \A tok \in Tokens : \A a \in Altered(tok) : Auth(a) = InvalidToken

C4_Witness ==
    /\ \E tok \in Tokens :
          /\ Auth(tok).ok
          /\ \E a \in Altered(tok) : a.sub # tok.sub /\ Stored(a.sub)
          /\ \E a \in Altered(tok) : a.role # tok.role
          /\ \E a \in Altered(tok) : a.exp # tok.exp
    /\ last = [op |-> "delete_user", status |-> 401,
               message |-> "Invalid authentication token"]

\* C5: every authentication failure of get_current_user carries the same
\* payload, whether the token was invalid or expired or its subject is no
\* longer stored.
C5_UniformFailure ==
    \A t1, t2 \in Presentable :
        (Auth(t1).status = 401 /\ Auth(t2).status = 401) => Auth(t1) = Auth(t2)

\* C6: a successful get_current_user returns the record as stored now, so a
\* change update_user made after the token was issued is in the result.
C6_LiveRecord ==
    \A i \in issued :
        Auth(i.tok).ok =>
            /\ Auth(i.tok).user \in users
            /\ Auth(i.tok).user.id = i.uid
            /\ pwd_verify(rawpw[i.uid], Auth(i.tok).user.password)

C6_Witness ==
    /\ \E i \in issued :
          /\ Auth(i.tok).ok
          /\ Auth(i.tok).user.role # i.tok.role
    /\ last = [op |-> "get_users", status |-> 200, message |-> ""]

\* C7: a token that get_current_user rejects is rejected ever after, whatever
\* create_user, update_user, delete_user, login or the clock do next.
C7_RejectedForGood ==
    [][\A tok \in Presentable :
          ~get_current_user(tok, users, now).ok
              => ~get_current_user(tok, users', now').ok]_vars

C7_Witness ==
    /\ \E i \in issued : ~Stored(i.uid) /\ now < i.at + TTLTicks
    /\ last = [op |-> "create_user", status |-> 200, message |-> ""]

\* C8: the password field of every stored identity is a hash output and
\* never the raw password that was submitted.
C8_PasswordHashed ==
    \A u \in users :
        /\ u.password.scheme = "bcrypt"
        /\ u.password.salt \in Salts
        /\ u.password # Plain(rawpw[u.id])

C8_Witness ==
    /\ users # {}
    /\ last = [op |-> "update_user", status |-> 200, message |-> ""]

\* C9: login(email, password) succeeds if and only if a stored identity has
\* that email and password is the raw password most recently set for it.
C9_LoginIffCredentials ==
    \A e \in Emails, p \in Passwords :
        login_response(e, p).ok <=> \E u \in users : u.email = e /\ rawpw[u.id] = p

\* C10: a token login returned for identity X resolves, whenever it
\* authenticates, to the stored identity with the id of X.
C10_ResolvesToSubject ==
    \A i \in issued : Auth(i.tok).ok => Auth(i.tok).user.id = i.uid

C10_Witness ==
    /\ \E i \in issued :
          /\ Auth(i.tok).ok
          /\ \E u \in users : u.id < i.uid
    /\ last = [op |-> "get_users", status |-> 200, message |-> ""]

\* The handlers of the users router that a client error can end.
ClientErrorHandlers ==
    {"create_user", "update_user", "delete_user", "create_domain", "update_domain",
     "delete_domain"}

\* C21: a client error raised on purpose in a users/domains handler reaches
\* the caller with its own status: 400 for create_user with a registered email
\* and create_domain with an existing name, 404 for update_user, delete_user,
\* update_domain and delete_domain on an unknown id, and never a 500.
C21_ClientErrorsKeepStatus ==
    last.op \in ClientErrorHandlers =>
        /\ last.status # 500
        /\ last.status \in {200, 400, 401, 404, 422}

\* The news create_news stored for the domain a project refers to.
NewsOfProject(project) ==
    { n \in db["news"] : n.domain_id = project.domain_id }

\* C22: get_latest_insight(project_id) returns, for a project with a domain,
\* the news with the greatest date among the news created for that domain,
\* and latest_insight = None only when there is no such news.
C22_LatestInsight ==
    \A p \in db["projects"] :
        LET r == get_latest_insight_response(p.id)
        IN  /\ r.status = 200
            /\ IF NewsOfProject(p) = {}
               THEN r.latest_insight = NoDoc
               ELSE /\ r.latest_insight \in NewsOfProject(p)
                    /\ \A n \in NewsOfProject(p) : n.date <= r.latest_insight.date

\* A step of a protected handler of the users router for the token tok,
\* whether the dependency rejected the request or the handler ran.
ProtectedStep(tok) ==
    \/ \E op \in AllProtected : Denied(op, tok)
    \/ get_users(tok)
    \/ \E i \in Ids, s \in Salts : update_user(tok, i, "a@x.com", "admin", "hunter2", s)
    \/ \E i \in Ids : delete_user(tok, i)
    \/ get_domains(tok)
    \/ \E n \in DomainNames : create_domain(tok, n)
    \/ \E d \in DocIds, n \in DomainNames : update_domain(tok, d, n)
    \/ \E d \in DocIds : delete_domain(tok, d)

\* C23: get_users, update_user, delete_user, get_domains, create_domain,
\* update_domain and delete_domain perform no store operation of their own when
\* get_current_user fails: such a request leaves the users and domains
\* collections as they were and is answered with the 401 of the dependency.
C23_NoStoreOpWithoutAuth ==
    [][\A tok \in Presented :
          (~get_current_user(tok, users, now).ok /\ ProtectedStep(tok))
              => /\ UNCHANGED <<users, nextId, rawpw, db, oid>>
                 /\ last'.status = 401]_vars

C23_Witness ==
    /\ db["domains"] # {}
    /\ users # {}
    /\ last = [op |-> "delete_domain", status |-> 401,
               message |-> "Invalid authentication token"]

\* C24: for forecasts and for futures curves at most one record exists per
\* material_id after any interleaving of create_outlook (create_futures_curve)
\* calls, two concurrent calls for the same material included.
C24_OneRecordPerMaterial ==
    \A m \in DocIds :
        /\ Cardinality(find(db["forecasts"], [material_id |-> m])) <= 1
        /\ Cardinality(find(db["futures_curves"], [material_id |-> m])) <= 1

Levels == {"Green", "Amber", "Red"}

\* The level words a reply contains, "yellow" left aside.
LevelsNamed(reply) == reply.contains \cap {"green", "amber", "red"}

\* C25 as stated: every news record create_news stores has alert_type in
\* {Green, Amber, Red}; when the classifier call fails or its reply names none
\* of the levels, alert_type is Green and the record is still stored.
C25_FallbackGreen ==
    [][\A d \in DocIds, date \in Dates, reply \in Replies :
          (last'.op = "create_news" /\ last'.status = 200
              /\ create_news(d, date, reply))
              => \E n \in db'["news"] \ db["news"] :
                    /\ n.alert_type \in Levels
                    /\ (reply.failed \/ LevelsNamed(reply) = {})
                          => n.alert_type = "Green"]_vars

\* C25 amended: every news record create_news stores has alert_type in
\* {Green, Amber, Red}; when the classifier call fails or its reply contains
\* none of red, amber, yellow and green, alert_type is Green and the record is
\* still stored; a reply that contains yellow and not red gives Amber.
C25_FallbackGreenUnlessYellow ==
    [][/\ \A n \in db'["news"] : n.alert_type \in Levels
       /\ \A d \in DocIds, date \in Dates, reply \in Replies :
            (last'.op = "create_news" /\ last'.status = 200
                /\ create_news(d, date, reply))
                => \E n \in db'["news"] \ db["news"] :
                      /\ (reply.failed \/ reply.contains = {})
                            => n.alert_type = "Green"
                      /\ (~reply.failed /\ "yellow" \in reply.contains
                            /\ "red" \notin reply.contains)
                            => n.alert_type = "Amber"]_vars

C25_Witness ==
    /\ \E n \in db["news"] : n.alert_type = "Green"
    /\ \E n \in db["news"] : n.alert_type = "Amber"
    /\ last = [op |-> "create_news", status |-> 200, message |-> ""]

\* C26: for every stored project whose domain_id refers to an existing domain,
\* the domain field of the project equals the current name of that domain,
\* after any sequence of create_project, update_domain and delete_domain.
C26_DomainNameCurrent ==
    \A p \in db["projects"] :
        find_one(db["domains"], [id |-> p.domain_id]) # NoDoc
            => p.domain = find_one(db["domains"], [id |-> p.domain_id]).name

\* The documents of coll with the given id that user_id owns.
Owned(coll, doc_id, user_id) ==
    { d \in coll : d.id = doc_id /\ d.user_id = user_id }

\* C27: delete_project and delete_supplier remove a record only when its
\* stored user_id equals the user_id given, and then exactly that record; a
\* call naming another user's record answers 404 and leaves the collection
\* unchanged.
C27_OwnerOnlyDelete ==
    [][/\ \A p \in DocIds, u \in Ids :
            delete_project(p, u) =>
                IF Owned(db["projects"], p, u) # {}
                THEN /\ db'["projects"] = db["projects"] \ Owned(db["projects"], p, u)
                     /\ last'.status = 200
                ELSE /\ UNCHANGED db
                     /\ last'.status = 404
       /\ \A s \in DocIds, u \in Ids :
            delete_supplier(s, u) =>
                IF Owned(db["suppliers"], s, u) # {}
                THEN /\ db'["suppliers"] = db["suppliers"] \ Owned(db["suppliers"], s, u)
                     /\ last'.status = 200
                ELSE /\ UNCHANGED db
                     /\ last'.status = 404]_vars

C27_Witness ==
    /\ \E p \in db["projects"] : p.user_id = 1
    /\ \A p \in db["projects"] : p.user_id = 1
    /\ Cardinality(db["projects"]) = MaxDocs - 1
    /\ last = [op |-> "delete_project", status |-> 404,
               message |-> "Project not found or not authorized"]

\* C28: every market score create_market_score inserted can be removed again:
\* a delete_market_score call naming its id, with some user_id, deletes it and
\* reports success.
C28_ScoreDeletable ==
    \A m \in db["market_scores"] :
        \E u \in Ids :
            deleted_count(db["market_scores"], owner_filter(m.id, u)) = 1

\* C29: update_patent, update_paper, update_startup and update_investor
\* succeed whenever a record with the given id exists, also when the submitted
\* fields equal the stored ones, and answer 404 only when no record has the id.
C29_UpdateSucceedsIfExists ==
    [][\A d \in DocIds, t \in Titles :
          /\ update_patent(d, t) =>
                (last'.status = 404 <=> find_one(db["patents"], [id |-> d]) = NoDoc)
          /\ update_paper(d, t) =>
                (last'.status = 404
                    <=> find_one(db["research_papers"], [id |-> d]) = NoDoc)
          /\ update_startup(d, t) =>
                (last'.status = 404 <=> find_one(db["startups"], [id |-> d]) = NoDoc)
          /\ update_investor(d, t) =>
                (last'.status = 404
                    <=> find_one(db["investors"], [id |-> d]) = NoDoc)]_vars

\* C30: for every stored material, volatility_level equals
\* get_volatility_level of its current volatility, after any sequence of
\* create_material and update_material calls.
C30_VolatilityLevelCurrent ==
    \A m \in db["materials"] :
        m.volatility_level = get_volatility_level(m.volatility)


====
